---- MODULE Spec2Model ----
(***************************************************************************)
(* The ReAct analytics flow of langgraph/flows/react_analytics_flow.py:    *)
(* the LangGraph initialize -> reasoning -> action -> (reasoning |          *)
(* final_response) -> update_context -> END, run by                         *)
(* process_user_message_react, with the MemorySaver of the graph, and main  *)
(* of langgraph/runner.py.                                                  *)
(*                                                                         *)
(* Text is modelled as a sequence of lexemes (a Python str is the           *)
(* concatenation of its lexemes); a mapping (a Python dict) is a function   *)
(* with a domain of strings.                                                *)
(***************************************************************************)
EXTENDS Integers, Sequences, FiniteSets, TLC

VARIABLES
    pc,                 \* the graph node to run next, or END / raised / returned
    keys,               \* the keys present in the ReActState dict
    thought,            \* state["thought"]
    action,             \* state["action"]
    action_input,       \* state["action_input"]
    observation,        \* state["observation"]
    reasoning_history,  \* state["reasoning_history"]
    iteration_count,    \* state["iteration_count"]
    max_iterations,     \* state["max_iterations"]
    should_continue,    \* state["should_continue"]
    final_response,     \* state["final_response"]
    session_context,    \* state["session_context"]
    incoming_context,   \* the session_context argument of the entry point
    result_text,        \* result of the last reasoning model call
    exc,                \* the exception propagating out of the graph, if any
    response,           \* what process_user_message_react returned
    now,                \* the clock read by datetime.now()
    model_calls,        \* the llm.invoke calls of the reasoning node: how each ended
    final_calls,        \* llm.invoke calls made by the final_response node
    tool_calls,         \* the tool.ainvoke calls: tool, arguments, how each ended
    registry_lookups,   \* evaluations of "action in AVAILABLE_TOOLS"
    executor_calls,     \* calls of react_action_step that have returned
    awaiting,           \* the external call the running node waits for
    in_flight,          \* the external calls issued and not yet completed
    session_id,         \* the session_id argument of the entry point
    checkpoints,        \* the MemorySaver: the state last saved, by thread_id
    runs,               \* calls of process_user_message_react so far
    reasoning_prompt,   \* the prompt the reasoning node built last
    response_prompt,    \* the prompt the final_response node built last
    hybrid_pc,          \* hybrid: where process_user_message_hybrid is
    hybrid_args,        \* hybrid: its message and method arguments
    hybrid_method,      \* hybrid: method after the auto-selection
    hybrid_primary,     \* hybrid: how the call in its outer try ended
    hybrid_result,      \* hybrid: what it returned
    hybrid_exc,         \* hybrid: the exception it let out, if any
    raw_input,          \* runner: the text given in sys.argv[1] or on stdin
    runner_pc,          \* runner: where main is
    stdout,             \* runner: the values printed, as JSON
    exit_code           \* runner: the exit status of the process, -1 while it runs

vars == <<pc, keys, thought, action, action_input, observation,
          reasoning_history, iteration_count, max_iterations, should_continue,
          final_response, session_context, incoming_context, result_text,
          exc, response, now, model_calls, final_calls, tool_calls,
          registry_lookups, executor_calls, awaiting, in_flight,
          session_id, checkpoints, runs, reasoning_prompt, response_prompt,
          hybrid_pc, hybrid_args, hybrid_method, hybrid_primary,
          hybrid_result, hybrid_exc, raw_input, runner_pc, stdout,
          exit_code>>

-----------------------------------------------------------------------------
(* Bounds *)

\* longest model output, in lexemes, that the parser is checked on
MaxTextLen == 3

\* calls of process_user_message_react in one process
MaxRuns == 2

-----------------------------------------------------------------------------
(* Lexemes *)

ThoughtMark == "Thought:"
ActionMark == "Action:"
ActionInputMark == "Action Input:"
WS == " "
WORD == "need stock levels"
FINAL_ANSWER == "Final Answer"
NA == "N/A"
NONE == "None"
LBRACE == "{"
RBRACE == "}"
OBJECT == "{\"filter_status\": \"low_stock\"}"
DEEP == "{\"a\": {\"a\": {\"a\": ... }}}"

\* the lexemes a model output is built from
Lexemes ==
    {ThoughtMark, ActionMark, ActionInputMark, WS, WORD, FINAL_ANSWER, NA,
     LBRACE, RBRACE, OBJECT, DEEP, "check_stock_alerts"}

EmptyMap == [k \in {} |-> 0]
ObjectMap == [filter_status |-> "low_stock"]

\* the sentinel action, as a text
FinalAnswer == <<FINAL_ANSWER>>

\* the keys of AVAILABLE_TOOLS, in insertion order
AVAILABLE_TOOLS ==
    <<"get_inventory_status", "check_stock_alerts",
      "analyze_inventory_by_product", "get_expiry_alerts",
      "analyze_sales_data", "get_product_sales_velocity", "forecast_sales",
      "analyze_seasonal_trends", "compare_periods", "analyze_growth_drivers",
      "analyze_product_performance", "get_all_cookbook_items",
      "get_recipe_details", "analyze_menu_profitability",
      "get_wastage_summary", "analyze_wastage_by_product",
      "track_wastage_trends", "get_tenant_information",
      "analyze_product_catalog", "get_location_overview", "get_batch_history",
      "generate_chart_data", "create_dashboard_summary",
      "check_backend_status", "get_available_endpoints">>

ToolNames == {AVAILABLE_TOOLS[i] : i \in 1..Len(AVAILABLE_TOOLS)}

\* the keys of TOOL_SCHEMAS, in insertion order: the tools the reasoning
\* prompt advertises
TOOL_SCHEMAS ==
    <<"get_inventory_status", "check_stock_alerts",
      "analyze_inventory_by_product", "get_expiry_alerts",
      "get_all_cookbook_items", "get_recipe_details",
      "analyze_menu_profitability", "get_wastage_summary",
      "analyze_wastage_by_product", "track_wastage_trends",
      "get_tenant_information", "analyze_product_catalog",
      "get_location_overview", "get_batch_history", "check_backend_status",
      "get_available_endpoints", "analyze_sales_data",
      "get_product_sales_velocity", "forecast_sales",
      "analyze_seasonal_trends", "compare_periods", "analyze_growth_drivers",
      "analyze_product_performance", "generate_chart_data",
      "create_dashboard_summary", "generate_sales_report">>

-----------------------------------------------------------------------------
(* str methods and the regular expressions of the parser *)

\* str.strip(): drop leading and trailing whitespace
RECURSIVE LStrip(_)
LStrip(s) == IF s # <<>> /\ Head(s) = WS THEN LStrip(Tail(s)) ELSE s

RECURSIVE RStrip(_)
RStrip(s) ==
    IF s # <<>> /\ s[Len(s)] = WS THEN RStrip(SubSeq(s, 1, Len(s) - 1)) ELSE s

Strip(s) == RStrip(LStrip(s))

\* str.lower(), lexeme by lexeme
LowerLexeme(x) ==
    CASE x = NA -> "n/a"
      [] x = NONE -> "none"
      [] x = FINAL_ANSWER -> "final answer"
      [] x = ThoughtMark -> "thought:"
      [] x = ActionMark -> "action:"
      [] x = ActionInputMark -> "action input:"
      [] OTHER -> x

Lower(s) == [i \in 1..Len(s) |-> LowerLexeme(s[i])]

\* index of the first occurrence of lexeme x in s after position from, or 0
FirstIndex(s, x, from) ==
    IF \E i \in (from + 1)..Len(s) : s[i] = x
    THEN CHOOSE i \in (from + 1)..Len(s) :
            s[i] = x /\ \A j \in (from + 1)..(i - 1) : s[j] # x
    ELSE 0

\* re.search(marker + r'\s*(.*?)(?=' + stop + '|$)', s, re.DOTALL):
\* [matched, group1]
SearchSection(s, marker, stop) ==
    LET m == FirstIndex(s, marker, 0)
        e == IF m = 0 THEN 0 ELSE FirstIndex(s, stop, m)
        last == IF e = 0 THEN Len(s) ELSE e - 1
    IN  IF m = 0 THEN [matched |-> FALSE, group |-> <<>>]
        ELSE [matched |-> TRUE, group |-> LStrip(SubSeq(s, m + 1, last))]

\* re.search(r'Action Input:\s*(.*?)$', s, re.DOTALL)
SearchActionInput(s) ==
    LET m == FirstIndex(s, ActionInputMark, 0)
    IN  IF m = 0 THEN [matched |-> FALSE, group |-> <<>>]
        ELSE [matched |-> TRUE, group |-> LStrip(SubSeq(s, m + 1, Len(s)))]

HasOpen(x) == x \in {LBRACE, OBJECT, DEEP}
HasClose(x) == x \in {RBRACE, OBJECT, DEEP}

\* re.search(r'\{.*\}', s, re.DOTALL): greedy, first "{" to last "}"
SearchBraces(s) ==
    LET opens == {i \in 1..Len(s) : HasOpen(s[i])}
        closes == {i \in 1..Len(s) : HasClose(s[i])}
        a == CHOOSE i \in opens : \A j \in opens : i <= j
        b == CHOOSE i \in closes : \A j \in closes : j <= i
    IN  IF opens = {} \/ closes = {} THEN [matched |-> FALSE, group |-> <<>>]
        ELSE IF b > a \/ (b = a /\ HasOpen(s[a]) /\ HasClose(s[a]))
             THEN [matched |-> TRUE, group |-> SubSeq(s, a, b)]
             ELSE [matched |-> FALSE, group |-> <<>>]

\* the text without its whitespace
RECURSIVE NoSpace(_)
NoSpace(s) ==
    IF s = <<>> THEN <<>>
    ELSE IF Head(s) = WS THEN NoSpace(Tail(s))
         ELSE <<Head(s)>> \o NoSpace(Tail(s))

\* json.loads on a text that starts with "{" and ends with "}":
\* the mapping, or the exception raised. The decoder reads from the left:
\* an object nested deeper than the interpreter's recursion limit raises
\* RecursionError before what follows it is read.
JsonLoadsObject(s) ==
    LET t == NoSpace(s)
    IN  CASE t = <<LBRACE, RBRACE>> -> [raises |-> "none", value |-> EmptyMap]
          [] t = <<OBJECT>> -> [raises |-> "none", value |-> ObjectMap]
          [] t # <<>> /\ t[1] = DEEP ->
                [raises |-> "RecursionError", value |-> EmptyMap]
          [] OTHER -> [raises |-> "JSONDecodeError", value |-> EmptyMap]

-----------------------------------------------------------------------------
(* The model and the tools, as seen by the flow *)

\* an exception raised by llm.invoke
ModelErrors == {"RateLimitError"}

\* a reasoning model call raises, or returns a response whose content is text
Raise(e) == [kind |-> "raise", err |-> e, content |-> <<>>]
Text(t) == [kind |-> "text", err |-> "none", content |-> t]

\* the model outputs the run is explored with
Texts ==
    { <<ThoughtMark, WORD, ActionMark, "check_stock_alerts",
        ActionInputMark, NA>>,
      <<ThoughtMark, WORD, ActionMark, "get_inventory_status",
        ActionInputMark, OBJECT>>,
      <<ThoughtMark, WORD, ActionMark, "generate_sales_report",
        ActionInputMark, NA>>,
      <<ThoughtMark, WORD, ActionMark, FINAL_ANSWER, ActionInputMark, NA>>,
      <<ThoughtMark, WORD, ActionMark, "check_stock_alerts",
        ActionInputMark, DEEP>>,
      <<WORD>>,
      <<ActionInputMark, DEEP>> }

ModelOutcomes == {Raise(e) : e \in ModelErrors} \cup {Text(t) : t \in Texts}

\* every text of at most MaxTextLen lexemes
AllTexts == UNION {[1..n -> Lexemes] : n \in 0..MaxTextLen}

\* complete responses whose Action Input is not a well-formed object
EdgeTexts ==
    { <<ThoughtMark, WORD, ActionMark, "check_stock_alerts",
        ActionInputMark, x>> : x \in {DEEP, LBRACE, WORD, NONE, WS} }
    \cup
    { <<ThoughtMark, WORD, ActionMark, "check_stock_alerts",
        ActionInputMark, OBJECT, WORD, OBJECT>>,
      <<ThoughtMark, WORD, ActionMark, "check_stock_alerts",
        ActionInputMark, WORD, LBRACE, WS, RBRACE, WORD>> }

AllModelOutcomes ==
    ModelOutcomes \cup {Text(t) : t \in AllTexts \cup EdgeTexts}

\* what a tool returns, by tool: a JSON-serializable mapping, named by what
\* the formatters do with it
ToolResults(tool) ==
    CASE tool = "check_stock_alerts" -> {"ALERTS_WITH_PRODUCT_NAME"}
      [] tool = "get_inventory_status" ->
            {"INVENTORY_ITEMS", "INVENTORY_ITEM_WITHOUT_STOCK_STATUS"}
      [] OTHER -> {"RESULT"}

ToolErrors(tool) ==
    CASE tool = "check_stock_alerts" -> {"ConnectionError"}
      [] OTHER -> {}

NoCall == [kind |-> "none", err |-> "none", result |-> "none"]

\* tool.ainvoke returns a result or raises
ToolOutcomes(tool) ==
    {[kind |-> "return", err |-> "none", result |-> r] : r \in ToolResults(tool)}
    \cup {[kind |-> "raise", err |-> e, result |-> "none"] : e \in ToolErrors(tool)}

\* json.dumps(result, indent=2)
JsonDumps(r) == <<LBRACE, r, RBRACE>>

\* json.loads(observation): the value, or JSONDecodeError
JsonLoads(s) ==
    IF Len(s) = 3 /\ s[1] = LBRACE /\ s[3] = RBRACE
    THEN [raises |-> "none", value |-> s[2]]
    ELSE [raises |-> "JSONDecodeError", value |-> "none"]

\* observation.startswith("Error")
StartsWithError(s) == s # <<>> /\ s[1] = "Error executing "

-----------------------------------------------------------------------------
(* react_reasoning_step *)

\* "except json.JSONDecodeError" around the JSON parse
InnerCatches(e) == e = "JSONDecodeError"

\* a handler that catches only the errors of the model call
OuterCatches_model_errors_only(e) == e \in ModelErrors

\* "except Exception" around the model call and the parse
OuterCatches(e) == TRUE

\* the Action Input section of the response: the mapping, or the exception
\* that leaves the inner try
ParseActionInput(text) ==
    LET am == SearchActionInput(text)
        t == Strip(am.group)
        jm == SearchBraces(t)
        r == JsonLoadsObject(jm.group)
    IN  IF ~am.matched THEN [raises |-> "none", value |-> EmptyMap]
        ELSE IF Lower(t) \in {<<"n/a">>, <<"none">>, <<>>}
             THEN [raises |-> "none", value |-> EmptyMap]
             ELSE IF ~jm.matched THEN [raises |-> "none", value |-> EmptyMap]
                  ELSE IF r.raises # "none" /\ InnerCatches(r.raises)
                       THEN [raises |-> "none", value |-> EmptyMap]
                       ELSE r

\* state["should_continue"] as the reasoning step computes it
\* a rule that stops one iteration later
ContinueRule_one_more(a, count, maxit) == a # FinalAnswer /\ count <= maxit

ContinueRule(a, count, maxit) == a # FinalAnswer /\ count < maxit

\* an except branch that leaves the loop running
Fallback_keeps_running(e) ==
    [thought |-> <<"Error in reasoning: ", e>>, action |-> FinalAnswer,
     action_input |-> EmptyMap, should_continue |-> TRUE, escaped |-> "none"]

\* the except branch of the reasoning step
Fallback(e) ==
    [thought |-> <<"Error in reasoning: ", e>>, action |-> FinalAnswer,
     action_input |-> EmptyMap, should_continue |-> FALSE, escaped |-> "none"]

\* a parser that asks for the first tool when no action is named
DefaultAction_first_tool == <<"check_stock_alerts">>

\* the action of a response without an "Action:" section
DefaultAction == FinalAnswer

\* the thought of a response without a "Thought:" section
DefaultThought == <<"No clear thought provided">>

\* the fields the reasoning step leaves in the state for model outcome m,
\* and the exception that escapes it
ReasoningResult(m, count, maxit) ==
    LET tm == SearchSection(m.content, ThoughtMark, ActionMark)
        acm == SearchSection(m.content, ActionMark, ActionInputMark)
        th == IF tm.matched THEN Strip(tm.group) ELSE DefaultThought
        ac == IF acm.matched THEN Strip(acm.group) ELSE DefaultAction
        ai == ParseActionInput(m.content)
        raised == IF m.kind = "raise" THEN m.err ELSE ai.raises
    IN  IF raised # "none"
        THEN IF OuterCatches(raised) THEN Fallback(raised)
             ELSE [thought |-> th, action |-> ac, action_input |-> EmptyMap,
                   should_continue |-> TRUE, escaped |-> raised]
        ELSE [thought |-> th, action |-> ac, action_input |-> ai.value,
              should_continue |-> ContinueRule(ac, count, maxit),
              escaped |-> "none"]

-----------------------------------------------------------------------------
(* process_user_message_react: the initial state handed to the graph *)

\* the session_context a caller may pass
IncomingContexts == {EmptyMap, [last_intent |-> "inventory"]}

InitialKeys ==
    {"user_message", "session_id", "conversation_history", "session_context"}

\* the session ids of the callers; "default" is the runner's
SessionIds == {"default", "s2"}

\* one checkpointer for every run, keyed by a constant
ThreadId_shared(sid) == "default"

\* config={"configurable": {"thread_id": session_id}}
ThreadId(sid) == sid

\* the channels of the graph state, as the checkpointer saves them
Snapshot ==
    [keys |-> keys, thought |-> thought, action |-> action,
     action_input |-> action_input, observation |-> observation,
     reasoning_history |-> reasoning_history,
     iteration_count |-> iteration_count, max_iterations |-> max_iterations,
     should_continue |-> should_continue, final_response |-> final_response,
     session_context |-> session_context]

\* a thread nothing was saved for
NoCheckpoint ==
    [keys |-> {}, thought |-> <<>>, action |-> <<>>,
     action_input |-> EmptyMap, observation |-> <<>>,
     reasoning_history |-> <<>>, iteration_count |-> 0, max_iterations |-> 0,
     should_continue |-> FALSE, final_response |-> <<>>,
     session_context |-> EmptyMap]

\* the checkpointer after a node of the run of session sid has returned
Save(cps, sid, snap) == [cps EXCEPT ![ThreadId(sid)] = snap]

\* no input read yet
NoInput ==
    [source |-> "none", json |-> "none", context |-> "none",
     method |-> "none", message |-> "none"]

\* no prompt built yet
NoPrompt == [built |-> FALSE]

\* a flow call has not been made, has returned a value, or has raised
NoOutcome == [kind |-> "none"]
FlowReturn(v) == [kind |-> "return", value |-> v]
FlowRaise(e) == [kind |-> "raise", err |-> e]

\* process_user_message_hybrid has not been called
NoArgs == [method |-> "none", message |-> "none"]

\* the variables of process_user_message_hybrid
hybrid ==
    <<hybrid_pc, hybrid_args, hybrid_method, hybrid_primary, hybrid_result,
      hybrid_exc>>

\* the state of the process before any node has run
Constructed ==
    /\ session_id = "default"
    /\ checkpoints = [t \in SessionIds |-> NoCheckpoint]
    /\ runs = 1
    /\ reasoning_prompt = NoPrompt
    /\ response_prompt = NoPrompt
    /\ raw_input = NoInput
    /\ runner_pc = "start"
    /\ stdout = <<>>
    /\ exit_code = -1
    /\ keys = InitialKeys
    /\ incoming_context \in IncomingContexts
    /\ session_context = incoming_context
    /\ thought = <<>>
    /\ action = <<>>
    /\ action_input = EmptyMap
    /\ observation = <<>>
    /\ reasoning_history = <<>>
    /\ iteration_count = 0
    /\ max_iterations = 0
    /\ should_continue = FALSE
    /\ final_response = <<>>
    /\ result_text = <<>>
    /\ exc = "none"
    /\ response = EmptyMap
    /\ now = 0
    /\ model_calls = <<>>
    /\ final_calls = <<>>
    /\ tool_calls = <<>>
    /\ registry_lookups = 0
    /\ executor_calls = 0
    /\ awaiting = "none"
    /\ in_flight = <<>>
    /\ hybrid_method = "none"
    /\ hybrid_primary = NoOutcome
    /\ hybrid_result = EmptyMap
    /\ hybrid_exc = "none"

\* process_user_message_react has been called: the graph is about to run
\* its entry node
Init ==
    /\ pc = "initialize"
    /\ hybrid_pc = "idle"
    /\ hybrid_args = NoArgs
    /\ Constructed

\* the variables of runner.py
runner == <<raw_input, runner_pc, stdout, exit_code>>

\* what no node of the graph changes
environment ==
    <<incoming_context, response, session_id, runs, runner, hybrid>>

\* the counters of external calls
counters ==
    <<model_calls, final_calls, tool_calls, registry_lookups,
      executor_calls>>

\* the external calls of a run
calls == <<awaiting, in_flight>>

\* the prompts of the two nodes that call the model
prompts == <<reasoning_prompt, response_prompt>>

\* a call is issued
Issue(flight, c) == Append(flight, c)

\* a call whose end the node does not wait for
Complete_left_pending(flight, c) == flight

\* the node resumes when the call it waits for has returned or raised:
\* llm.invoke returns, "await tool.ainvoke" resumes
Complete(flight, c) ==
    LET i == CHOOSE j \in 1..Len(flight) :
                 flight[j] = c /\ \A k \in 1..(j - 1) : flight[k] # c
    IN  SubSeq(flight, 1, i - 1) \o SubSeq(flight, i + 1, Len(flight))

\* state["max_iterations"] = 5
DefaultMaxIterations == 5

\* an initialize node that keeps what the state holds
InitialValues_left_over ==
    [reasoning_history |-> reasoning_history,
     iteration_count |-> iteration_count,
     max_iterations |-> DefaultMaxIterations, should_continue |-> TRUE]

\* the values initialize_react_state assigns
InitialValues ==
    [reasoning_history |-> <<>>, iteration_count |-> 0,
     max_iterations |-> DefaultMaxIterations, should_continue |-> TRUE]

initialize_react_state ==
    /\ pc = "initialize"
    /\ reasoning_history' = InitialValues.reasoning_history
    /\ iteration_count' = InitialValues.iteration_count
    /\ max_iterations' = InitialValues.max_iterations
    /\ should_continue' = InitialValues.should_continue
    /\ thought' = <<>>
    /\ action' = <<>>
    /\ action_input' = EmptyMap
    /\ observation' = <<>>
    /\ keys' = keys \cup {"reasoning_history", "iteration_count",
                          "max_iterations", "should_continue", "thought",
                          "action", "action_input", "observation"}
    /\ pc' = "reasoning"
    /\ UNCHANGED <<final_response, session_context, result_text, exc, now,
                   counters, environment, prompts, calls>>
    /\ checkpoints' = Save(checkpoints, session_id, Snapshot')

\* reasoning_history[-3:]
PromptWindow == 3

\* a prompt that shows the whole history
LastSteps_all(history) == history

\* reasoning_history[-3:]: the last three steps, or all when fewer
LastSteps(history) ==
    IF Len(history) <= PromptWindow THEN history
    ELSE SubSeq(history, Len(history) - PromptWindow + 1, Len(history))

\* the "Previous Reasoning Steps" of the prompt: enumerate(..., 1) numbers
\* the steps shown from 1, and each shows its thought, action and
\* observation
PreviousReasoningSteps(history) ==
    [i \in 1..Len(LastSteps(history)) |->
        [label |-> i,
         thought |-> LastSteps(history)[i].thought,
         action |-> LastSteps(history)[i].action,
         observation |-> LastSteps(history)[i].observation]]

\* the reasoning prompt: the steps shown, the tools advertised and
\* "Current iteration: {iteration_count + 1} / 5"
ReasoningPrompt(history, count) ==
    [built |-> TRUE, steps |-> PreviousReasoningSteps(history),
     tools |-> TOOL_SCHEMAS, current_iteration |-> count + 1]

\* the reasoning node builds its prompt and calls the model
CallModel ==
    /\ pc = "reasoning"
    /\ awaiting = "none"
    /\ awaiting' = "model"
    /\ in_flight' = Issue(in_flight, "model")
    /\ reasoning_prompt' = ReasoningPrompt(reasoning_history,
                                           iteration_count)
    /\ UNCHANGED <<checkpoints, response_prompt>>
    /\ UNCHANGED <<pc, keys, thought, action, action_input, observation,
                   reasoning_history, iteration_count, max_iterations,
                   should_continue, final_response, session_context,
                   result_text, exc, now, counters, environment>>

\* the rest of the reasoning node, for one outcome m of its model call
ReasoningStep(m) ==
    LET r == ReasoningResult(m, iteration_count, max_iterations)
    IN  /\ pc = "reasoning"
        /\ awaiting = "model"
        /\ awaiting' = "none"
        /\ in_flight' = Complete(in_flight, "model")
        /\ model_calls' = Append(model_calls, m.kind)
        /\ result_text' = m.content
        /\ thought' = r.thought
        /\ action' = r.action
        /\ action_input' = r.action_input
        /\ IF r.escaped = "none"
           THEN /\ should_continue' = r.should_continue
                /\ pc' = "action"
                /\ exc' = exc
           ELSE /\ should_continue' = should_continue
                /\ pc' = "raised"
                /\ exc' = r.escaped
        /\ UNCHANGED <<keys, observation, reasoning_history, iteration_count,
                       max_iterations, final_response, session_context, now,
                       final_calls, tool_calls, registry_lookups,
                       executor_calls, environment, prompts>>
        /\ checkpoints' = IF pc' = "raised" THEN checkpoints
                          ELSE Save(checkpoints, session_id, Snapshot')

react_reasoning_step ==
    \/ CallModel
    \/ \E m \in ModelOutcomes : ReasoningStep(m)

-----------------------------------------------------------------------------
(* react_action_step and the conditional edge *)

\* an executor without the sentinel branch
IsFinalAnswer_never(a) == FALSE

\* action == "Final Answer"
IsFinalAnswer(a) == a = FinalAnswer

\* action in AVAILABLE_TOOLS
Registered(a) == Len(a) = 1 /\ a[1] \in ToolNames

\* list(AVAILABLE_TOOLS.keys()), as printed
ToolList == AVAILABLE_TOOLS

ErrorObservation(a, e) == <<"Error executing ">> \o a \o <<": ", e>>

\* an unknown-action message without the list of tools
UnknownObservation_without_list(a) == <<"Unknown action: ">> \o a

UnknownObservation(a) ==
    <<"Unknown action: ">> \o a \o <<". Available actions: ">> \o ToolList

\* the observation of a step that is not the sentinel, for tool outcome t
Observe(a, t) ==
    IF Registered(a)
    THEN IF t.kind = "return" THEN JsonDumps(t.result)
         ELSE ErrorObservation(a, t.err)
    ELSE UnknownObservation(a)

\* a step numbered with the count before the increment
NewStep_numbered_from_zero(count, th, a, ai, obs, time) ==
    [iteration |-> count, thought |-> th, action |-> a,
     action_input |-> ai, observation |-> obs, timestamp |-> time]

\* the record appended to reasoning_history
NewStep(count, th, a, ai, obs, time) ==
    [iteration |-> count + 1, thought |-> th, action |-> a,
     action_input |-> ai, observation |-> obs, timestamp |-> time]

\* a recorded step that does not count
NextCount_not_incremented(count) == count

\* state["iteration_count"] after a recorded step
NextCount(count) == count + 1

should_continue_reasoning(sc) == IF sc THEN "reasoning" ELSE "final_response"

\* the sentinel branch: no lookup, no step recorded
FinalAnswerBranch ==
    /\ observation' = <<"Ready to provide final answer">>
    /\ should_continue' = FALSE
    /\ pc' = should_continue_reasoning(FALSE)
    /\ UNCHANGED <<reasoning_history, iteration_count, now, tool_calls,
                   registry_lookups, exc>>

\* a tool call without its handler
ToolCatches_nothing(e) == FALSE

\* "except Exception" around the tool call
ToolCatches(e) == TRUE

\* the tool branch from the observation on, for tool outcome t
ToolBranch(t) ==
    LET obs == Observe(action, t)
    IN  /\ tool_calls' =
              IF Registered(action)
              THEN Append(tool_calls,
                          [tool |-> action[1], args |-> action_input,
                           outcome |-> t.kind])
              ELSE tool_calls
        /\ should_continue' = should_continue
        /\ IF t.kind = "raise" /\ ~ToolCatches(t.err)
           THEN /\ pc' = "raised"
                /\ exc' = t.err
                /\ UNCHANGED <<observation, reasoning_history,
                               iteration_count, now>>
           ELSE /\ observation' = obs
                /\ reasoning_history' =
                      Append(reasoning_history,
                             NewStep(iteration_count, thought, action,
                                     action_input, obs, now))
                /\ iteration_count' = NextCount(iteration_count)
                /\ now' = now + 1
                /\ pc' = should_continue_reasoning(should_continue)
                /\ exc' = exc

\* the executor looks the action up and calls the tool
CallTool ==
    /\ pc = "action"
    /\ awaiting = "none"
    /\ ~IsFinalAnswer(action)
    /\ Registered(action)
    /\ registry_lookups' = registry_lookups + 1
    /\ awaiting' = "tool"
    /\ in_flight' = Issue(in_flight, "tool")
    /\ UNCHANGED checkpoints
    /\ UNCHANGED <<pc, keys, thought, action, action_input, observation,
                   reasoning_history, iteration_count, max_iterations,
                   should_continue, final_response, session_context,
                   result_text, exc, now, model_calls, final_calls,
                   tool_calls, executor_calls, environment, prompts>>

\* the executor after its tool call returned or raised
ToolReturns ==
    /\ pc = "action"
    /\ awaiting = "tool"
    /\ awaiting' = "none"
    /\ in_flight' = Complete(in_flight, "tool")
    /\ executor_calls' = executor_calls + 1
    /\ registry_lookups' = registry_lookups
    /\ \E t \in ToolOutcomes(action[1]) : ToolBranch(t)
    /\ UNCHANGED <<keys, thought, action, action_input, max_iterations,
                   final_response, session_context, result_text,
                   model_calls, final_calls, environment, prompts>>
    /\ checkpoints' = IF pc' = "raised" THEN checkpoints
                      ELSE Save(checkpoints, session_id, Snapshot')

\* the executor on the sentinel or on an unknown action: no external call
ExecuteWithoutTool ==
    /\ pc = "action"
    /\ awaiting = "none"
    /\ IsFinalAnswer(action) \/ ~Registered(action)
    /\ executor_calls' = executor_calls + 1
    /\ IF IsFinalAnswer(action) THEN FinalAnswerBranch
       ELSE /\ registry_lookups' = registry_lookups + 1
            /\ ToolBranch(NoCall)
    /\ UNCHANGED <<keys, thought, action, action_input, max_iterations,
                   final_response, session_context, result_text,
                   model_calls, final_calls, environment, prompts, calls>>
    /\ checkpoints' = Save(checkpoints, session_id, Snapshot')

react_action_step ==
    \/ CallTool
    \/ ToolReturns
    \/ ExecuteWithoutTool

-----------------------------------------------------------------------------
(* generate_final_response *)

\* the keys of the formatters table of format_tool_output
FormatterNames == ToolNames \cup {"generate_sales_report"}

\* the tools whose formatter is format_inventory_insights
InventoryFormatted == {"get_inventory_status", "analyze_inventory_by_product"}

\* format_tool_output(tool_name, data) raises: format_inventory_insights
\* calls status.replace on the None stock_status of an item
FormatterRaises(a, data) ==
    /\ Len(a) = 1
    /\ a[1] \in InventoryFormatted
    /\ data = "INVENTORY_ITEM_WITHOUT_STOCK_STATUS"

\* the insight block of one step, or the exception its formatter raises
FormatStep(step) ==
    LET obs == step.observation
        r == JsonLoads(obs)
    IN  IF obs # <<>> /\ ~StartsWithError(obs)
        THEN IF r.raises = "JSONDecodeError"
             THEN [raises |-> "none",
                   block |-> [kind |-> "plain", tool |-> step.action,
                              text |-> obs]]
             ELSE IF FormatterRaises(step.action, r.value)
                  THEN [raises |-> "AttributeError",
                        block |-> [kind |-> "none", tool |-> step.action,
                                   text |-> obs]]
                  ELSE [raises |-> "none",
                        block |-> [kind |-> IF Len(step.action) = 1
                                               /\ step.action[1] \in FormatterNames
                                            THEN "domain" ELSE "generic",
                                   tool |-> step.action, text |-> obs]]
        ELSE [raises |-> "none",
              block |-> [kind |-> "warning", tool |-> step.action,
                         text |-> obs]]

\* format_tool_results_for_response: the blocks in history order, or the
\* first exception raised
RECURSIVE format_tool_results_for_response(_)
format_tool_results_for_response(history) ==
    IF history = <<>> THEN [raises |-> "none", blocks |-> <<>>]
    ELSE LET f == FormatStep(Head(history))
             rest == format_tool_results_for_response(Tail(history))
         IN  IF f.raises # "none" THEN [raises |-> f.raises, blocks |-> <<>>]
             ELSE IF rest.raises # "none" THEN rest
                  ELSE [raises |-> "none",
                        blocks |-> <<f.block>> \o rest.blocks]

\* the outcomes of the final model call
FinalOutcomes ==
    {Raise(e) : e \in ModelErrors} \cup {Text(<<"Here is what I found">>)}

Apology(e) ==
    <<"I analyzed your request using multiple reasoning steps, but encountered an error generating the final response: ",
      e, ". Please try rephrasing your question.">>

\* a response prompt that shows the blocks of the last three steps only
ResponsePrompt_last_three(blocks) ==
    [built |-> TRUE,
     blocks |-> IF Len(blocks) <= 3 THEN blocks
                ELSE SubSeq(blocks, Len(blocks) - 2, Len(blocks))]

\* the response prompt: "ANALYSIS RESULTS:" followed by the blocks joined
ResponsePrompt(blocks) == [built |-> TRUE, blocks |-> blocks]

\* the finalizer formats the history, builds its prompt and calls the model
FormatAndCallModel ==
    /\ pc = "final_response"
    /\ awaiting = "none"
    /\ LET f == format_tool_results_for_response(reasoning_history)
       IN  IF f.raises # "none"
           THEN /\ pc' = "raised"
                /\ exc' = f.raises
                /\ UNCHANGED calls
                /\ UNCHANGED response_prompt
           ELSE /\ awaiting' = "final_model"
                /\ in_flight' = Issue(in_flight, "final_model")
                /\ response_prompt' = ResponsePrompt(f.blocks)
                /\ UNCHANGED <<pc, exc>>
    /\ UNCHANGED <<checkpoints, reasoning_prompt>>
    /\ UNCHANGED <<keys, thought, action, action_input, observation,
                   reasoning_history, iteration_count, max_iterations,
                   should_continue, final_response, session_context,
                   result_text, now, counters, environment>>

\* the rest of the finalizer, for one outcome m of its model call
FinalStep(m) ==
    /\ pc = "final_response"
    /\ awaiting = "final_model"
    /\ awaiting' = "none"
    /\ in_flight' = Complete(in_flight, "final_model")
    /\ final_calls' = Append(final_calls, m.kind)
    /\ final_response' =
          IF m.kind = "raise" THEN Apology(m.err) ELSE m.content
    /\ keys' = keys \cup {"final_response"}
    /\ pc' = "update_context"
    /\ UNCHANGED <<thought, action, action_input, observation,
                   reasoning_history, iteration_count, max_iterations,
                   should_continue, session_context, result_text, exc, now,
                   model_calls, tool_calls, registry_lookups,
                   executor_calls, environment, prompts>>
    /\ checkpoints' = Save(checkpoints, session_id, Snapshot')

generate_final_response ==
    \/ FormatAndCallModel
    \/ \E m \in FinalOutcomes : FinalStep(m)

-----------------------------------------------------------------------------
(* update_react_session_context *)

\* [step.get("action") for step in history
\*  if step.get("action") != "Final Answer"]
RECURSIVE ToolsUsed(_)
ToolsUsed(history) ==
    IF history = <<>> THEN <<>>
    ELSE IF Head(history).action # FinalAnswer
         THEN <<Head(history).action>> \o ToolsUsed(Tail(history))
         ELSE ToolsUsed(Tail(history))

\* "product_name" in str(result_data)
MentionsProductName(data) == data = "ALERTS_WITH_PRODUCT_NAME"

\* the steps whose observation is JSON, is no error and mentions product_name
ProductSteps(history) ==
    {i \in 1..Len(history) :
        /\ history[i].observation # <<>>
        /\ ~StartsWithError(history[i].observation)
        /\ JsonLoads(history[i].observation).raises = "none"
        /\ MentionsProductName(JsonLoads(history[i].observation).value)}

\* a summary that lists each tool once
LastReasoning_tools_once(history, count, time) ==
    [iterations |-> count,
     tools_used |-> IF history = <<>> THEN <<>>
                    ELSE <<Head(history).action>>
                         \o ToolsUsed(SelectSeq(Tail(history),
                               LAMBDA st : st.action # Head(history).action)),
     reasoning_steps |-> Len(history), completed_at |-> time]

LastReasoning(history, count, time) ==
    [iterations |-> count, tools_used |-> ToolsUsed(history),
     reasoning_steps |-> Len(history), completed_at |-> time]

\* updates merged into the session_context the state holds
SessionUpdates_merged(history, count, time) ==
    [last_react_reasoning |-> LastReasoning(history, count, time)]
        @@ session_context

\* session_updates
SessionUpdates(history, count, time) ==
    LET ps == ProductSteps(history)
        last == CHOOSE i \in ps : \A j \in ps : j <= i
    IN  IF ps = {}
        THEN [last_react_reasoning |-> LastReasoning(history, count, time)]
        ELSE [last_react_reasoning |-> LastReasoning(history, count, time),
              last_analyzed_product |->
                  [from_react |-> TRUE,
                   reasoning_step |-> history[last].iteration]]

update_react_session_context ==
    /\ pc = "update_context"
    /\ session_context' =
          SessionUpdates(reasoning_history, iteration_count, now)
    /\ now' = now + 1
    /\ pc' = "END"
    /\ UNCHANGED <<keys, thought, action, action_input, observation,
                   reasoning_history, iteration_count, max_iterations,
                   should_continue, final_response, result_text, exc,
                   counters, environment, prompts, calls>>
    /\ checkpoints' = Save(checkpoints, session_id, Snapshot')

-----------------------------------------------------------------------------
(* process_user_message_react: the value returned *)

\* a success value that counts the calls of the action node, the one for
\* "Final Answer" included
SuccessResponse_counting_calls ==
    [success |-> TRUE, response |-> final_response, method |-> "react",
     reasoning_trace |-> reasoning_history, iterations |-> executor_calls,
     tools_used |-> ToolsUsed(reasoning_history),
     session_context |-> session_context,
     metadata |-> [reasoning_steps |-> Len(reasoning_history),
                   max_iterations |-> max_iterations,
                   processing_time |-> "calculated_in_production"]]

SuccessResponse ==
    [success |-> TRUE, response |-> final_response, method |-> "react",
     reasoning_trace |-> reasoning_history, iterations |-> iteration_count,
     tools_used |-> ToolsUsed(reasoning_history),
     session_context |-> session_context,
     metadata |-> [reasoning_steps |-> Len(reasoning_history),
                   max_iterations |-> max_iterations,
                   processing_time |-> "calculated_in_production"]]

\* a failure value that still carries the steps of the failed run
FailureResponse_with_trace ==
    [success |-> FALSE,
     response |-> <<"I apologize, but I encountered an error during reasoning: ",
                    exc, ". Please try again or ask for help.">>,
     error |-> exc, method |-> "react", reasoning_trace |-> reasoning_history,
     iterations |-> iteration_count, session_context |-> session_context]

FailureResponse ==
    [success |-> FALSE,
     response |-> <<"I apologize, but I encountered an error during reasoning: ",
                    exc, ". Please try again or ask for help.">>,
     error |-> exc, method |-> "react", reasoning_trace |-> <<>>,
     iterations |-> 0, session_context |-> incoming_context]

process_user_message_react ==
    /\ pc \in {"END", "raised"}
    /\ response' = IF pc = "END" THEN SuccessResponse ELSE FailureResponse
    /\ pc' = "returned"
    /\ UNCHANGED <<keys, thought, action, action_input, observation,
                   reasoning_history, iteration_count, max_iterations,
                   should_continue, final_response, session_context,
                   incoming_context, result_text, exc, now, counters,
                   calls, prompts, session_id, checkpoints, runs, runner,
                   hybrid>>

\* a later call of process_user_message_react in the same process, for
\* session sid with context ctx: ainvoke restores the channels saved for the
\* thread and writes the four keys of initial_state over them
StartRun(sid, ctx) ==
    LET cp == checkpoints[ThreadId(sid)]
    IN  /\ pc = "returned"
        /\ runs < MaxRuns
        /\ runs' = runs + 1
        /\ session_id' = sid
        /\ incoming_context' = ctx
        /\ session_context' = ctx
        /\ keys' = cp.keys \cup InitialKeys
        /\ thought' = cp.thought
        /\ action' = cp.action
        /\ action_input' = cp.action_input
        /\ observation' = cp.observation
        /\ reasoning_history' = cp.reasoning_history
        /\ iteration_count' = cp.iteration_count
        /\ max_iterations' = cp.max_iterations
        /\ should_continue' = cp.should_continue
        /\ final_response' = cp.final_response
        /\ result_text' = <<>>
        /\ exc' = "none"
        /\ response' = EmptyMap
        /\ model_calls' = <<>>
        /\ final_calls' = <<>>
        /\ tool_calls' = <<>>
        /\ registry_lookups' = 0
        /\ executor_calls' = 0
        /\ reasoning_prompt' = NoPrompt
        /\ response_prompt' = NoPrompt
        /\ pc' = "initialize"
        /\ UNCHANGED <<now, calls, runner, hybrid>>
        /\ checkpoints' = Save(checkpoints, sid, Snapshot')

process_user_message_react_again ==
    \E sid \in SessionIds, ctx \in IncomingContexts : StartRun(sid, ctx)

\* what a run of another session has saved when it has finished
OtherSnapshots ==
    { [keys |-> InitialKeys \cup {"reasoning_history", "iteration_count",
                                  "max_iterations", "should_continue",
                                  "thought", "action", "action_input",
                                  "observation", "final_response"},
       thought |-> <<WORD>>, action |-> FinalAnswer,
       action_input |-> EmptyMap,
       observation |-> <<"Ready to provide final answer">>,
       reasoning_history |->
           <<NewStep(0, <<WORD>>, <<"get_expiry_alerts">>, EmptyMap,
                     JsonDumps("RESULT"), 0)>>,
       iteration_count |-> 1, max_iterations |-> DefaultMaxIterations,
       should_continue |-> FALSE,
       final_response |-> <<"Here is what I found">>,
       session_context |->
           SessionUpdates(<<NewStep(0, <<WORD>>, <<"get_expiry_alerts">>,
                                    EmptyMap, JsonDumps("RESULT"), 0)>>,
                          1, 1)] }

\* a node of a run of another session returns while this run is under way
OtherSessionSaves ==
    \E sid \in SessionIds \ {session_id}, snap \in OtherSnapshots :
        /\ pc # "returned"
        /\ checkpoints' = Save(checkpoints, sid, snap)
        /\ checkpoints' # checkpoints
        /\ UNCHANGED <<pc, keys, thought, action, action_input, observation,
                       reasoning_history, iteration_count, max_iterations,
                       should_continue, final_response, session_context,
                       result_text, exc, now, counters, environment, prompts, calls>>

-----------------------------------------------------------------------------
(* Specifications *)

Next ==
    \/ initialize_react_state
    \/ react_reasoning_step
    \/ react_action_step
    \/ generate_final_response
    \/ update_react_session_context
    \/ process_user_message_react

Spec == Init /\ [][Next]_vars

\* the graph runs every node it has scheduled; a model call and a tool call
\* return or raise
FairSpec == Spec /\ WF_vars(Next)

\* the reasoning node on every text of at most MaxTextLen lexemes
parse_model_output ==
    \/ CallModel
    \/ \E m \in AllModelOutcomes : ReasoningStep(m)

ParseNext ==
    \/ initialize_react_state
    \/ parse_model_output

ParseSpec == Init /\ [][ParseNext]_vars

\* the model outputs the runs of several sessions are explored with
SessionTexts ==
    { <<ThoughtMark, WORD, ActionMark, "get_expiry_alerts",
        ActionInputMark, NA>>,
      <<ThoughtMark, WORD, ActionMark, FINAL_ANSWER, ActionInputMark, NA>> }

session_reasoning_step ==
    \/ CallModel
    \/ \E t \in SessionTexts : ReasoningStep(Text(t))

\* several runs in one process, of the same session or of different ones,
\* with the runs of other sessions saving their checkpoints in between
SessionNext ==
    \/ initialize_react_state
    \/ session_reasoning_step
    \/ react_action_step
    \/ generate_final_response
    \/ update_react_session_context
    \/ process_user_message_react
    \/ process_user_message_react_again
    \/ OtherSessionSaves

SessionSpec == Init /\ [][SessionNext]_vars

-----------------------------------------------------------------------------
(* runner.py: main *)

\* what the text is as JSON: not JSON at all, nested too deep for the
\* parser, or a JSON value of one of the kinds
JsonKinds ==
    {"invalid", "deep", "array", "string", "number", "null", "object"}

\* the "context" member of an object
ContextKinds == {"absent", "object", "null", "string", "array"}

\* the "method" member of an object
MethodKinds == {"absent", "react", "intent", "auto", "other"}

\* the "message" member of an object
MessageKinds == {"absent", "string", "number"}

\* the texts main is explored with
RunnerInputs ==
    {[source |-> src, json |-> j, context |-> "none", method |-> "none",
      message |-> "none"] :
        src \in {"argv", "stdin"}, j \in JsonKinds \ {"object"}}
    \cup
    {[source |-> src, json |-> "object", context |-> c, method |-> m,
      message |-> msg] :
        src \in {"argv", "stdin"}, c \in ContextKinds, m \in MethodKinds,
        msg \in MessageKinds}

\* json.loads of the text raises
LoadsRaises(inp) ==
    CASE inp.json = "invalid" -> "JSONDecodeError"
      [] inp.json = "deep" -> "RecursionError"
      [] OTHER -> "none"

\* input_data.get(...) and input_data.get("context", {}).get(...) raise
ExtractRaises(inp) ==
    IF inp.json # "object" THEN "AttributeError"
    ELSE IF inp.context \in {"null", "string", "array"}
         THEN "AttributeError" ELSE "none"

\* input_data.get("method", "auto")
MethodOf(inp) == IF inp.method = "absent" THEN "auto" ELSE inp.method

\* the flow main calls
FlowOf(inp) ==
    IF MethodOf(inp) = "react" THEN "react"
    ELSE IF MethodOf(inp) = "intent" THEN "intent" ELSE "hybrid"

\* what the flow called returns; main adds the method to the intent result
FlowResults(inp) ==
    CASE FlowOf(inp) = "react" ->
            {[success |-> b, response |-> <<WORD>>, method |-> "react"] :
                b \in BOOLEAN}
      [] FlowOf(inp) = "intent" ->
            {[success |-> b, response |-> <<WORD>>, method |-> "intent"] :
                b \in BOOLEAN}
      [] OTHER ->
            {[success |-> TRUE, response |-> <<WORD>>, method |-> m] :
                m \in {"react", "intent"}}
            \cup {[success |-> FALSE, response |-> <<WORD>>,
                   method |-> "error"]}

\* what the flow called raises: message.lower() of the hybrid flow, outside
\* its try, on a message that is not a string
FlowRaises(inp) ==
    IF FlowOf(inp) = "hybrid" /\ MethodOf(inp) = "auto"
       /\ inp.message = "number"
    THEN "AttributeError" ELSE "none"

\* a main whose only handler is the one of JSONDecodeError
SecondHandlerCatches_nothing(e) == FALSE

\* "except Exception" of main
SecondHandlerCatches(e) == TRUE

\* the envelope each handler prints
Envelope(e) ==
    IF e = "JSONDecodeError"
    THEN [success |-> FALSE, response |-> <<"Invalid JSON input provided">>,
          error |-> <<e>>, intent |-> "error"]
    ELSE [success |-> FALSE, response |-> <<"Processing failed: ", e>>,
          error |-> <<e>>, intent |-> "error"]

\* main leaves through a handler, or with the exception no handler caught
Fail(e) ==
    /\ stdout' = IF e = "JSONDecodeError" \/ SecondHandlerCatches(e)
                 THEN Append(stdout, Envelope(e)) ELSE stdout
    /\ exit_code' = 1
    /\ runner_pc' = "exited"

\* the variables of the flows
flow ==
    <<pc, keys, thought, action, action_input, observation,
      reasoning_history, iteration_count, max_iterations, should_continue,
      final_response, session_context, incoming_context, result_text, exc,
      response, now, counters, calls, prompts, session_id, checkpoints,
      runs, hybrid>>

\* main from its start to the call of a flow, or to its exit
RunnerStart(inp) ==
    /\ runner_pc = "start"
    /\ raw_input' = inp
    /\ IF LoadsRaises(inp) # "none" THEN Fail(LoadsRaises(inp))
       ELSE IF ExtractRaises(inp) # "none" THEN Fail(ExtractRaises(inp))
            ELSE /\ runner_pc' = "flow"
                 /\ UNCHANGED <<stdout, exit_code>>
    /\ UNCHANGED flow

\* main after the flow it awaited has returned or raised
RunnerFinish ==
    /\ runner_pc = "flow"
    /\ IF FlowRaises(raw_input) # "none" THEN Fail(FlowRaises(raw_input))
       ELSE \E r \in FlowResults(raw_input) :
               /\ stdout' = Append(stdout, r)
               /\ exit_code' = 0
               /\ runner_pc' = "exited"
    /\ UNCHANGED <<raw_input, flow>>

main ==
    \/ \E inp \in RunnerInputs : RunnerStart(inp)
    \/ RunnerFinish

RunnerSpec == Init /\ [][main]_vars

-----------------------------------------------------------------------------
(* hybrid_analytics_flow.py: process_user_message_hybrid *)

\* the method argument: one of the three of its Literal type, or another
\* value, which the runner passes on as it received it
HybridMethods == {"react", "intent", "auto", "other"}

\* the message argument, by the indicators message.lower() contains, or a
\* value that is not a string
HybridMessages ==
    {"complex", "simple", "complex_and_simple", "neither", "not_a_string"}

HybridInputs == [method : HybridMethods, message : HybridMessages]

\* the auto-selection: message.lower() and the two lists of indicators
AutoSelect(args) ==
    IF args.method # "auto" THEN [raises |-> "none", method |-> args.method]
    ELSE IF args.message = "not_a_string"
         THEN [raises |-> "AttributeError", method |-> args.method]
         ELSE IF args.message \in {"complex", "complex_and_simple"}
              THEN [raises |-> "none", method |-> "react"]
              ELSE IF args.message = "simple"
                   THEN [raises |-> "none", method |-> "intent"]
                   ELSE [raises |-> "none", method |-> "react"]

\* how sales_analytics_graph.ainvoke ends
IntentGraphOutcomes == {"returns", "raises"}

\* process_user_message of sales_analytics_flow: the value it returns when
\* its graph returns and when its graph raises
process_intent_based(g, ctx) ==
    IF g = "returns"
    THEN FlowReturn([success |-> TRUE, response |-> <<WORD>>,
                     intent |-> "inventory", tool_results |-> <<>>,
                     session_context |-> ctx])
    ELSE FlowReturn([success |-> FALSE,
                     response |-> <<"I apologize, but I encountered an error processing your request: ",
                                    "Exception", ". Please try again or ask for help.">>,
                     error |-> "Exception", intent |-> "error",
                     tool_results |-> <<>>, session_context |-> ctx])

\* result["method"] = "intent" after the intent-based flow; the result of
\* the ReAct flow is left as it is
WithMethod(m, v) == IF m = "react" THEN v ELSE ("method" :> "intent") @@ v

\* "except Exception as e" around the first call
PrimaryFailed(primary) == primary.kind = "raise"

\* fallback_method
FallbackMethod(m) == IF m = "react" THEN "intent" ELSE "react"

\* how the call of the other method in the handler can end. The handler is
\* entered only when the first call raised; the flow it calls is taken by
\* the values that flow returns
FallbackOutcomes(m, ctx) ==
    IF FallbackMethod(m) = "intent"
    THEN {process_intent_based(g, ctx) : g \in IntentGraphOutcomes}
    ELSE {FlowReturn(SuccessResponse), FlowReturn(FailureResponse)}

\* what process_user_message_hybrid returns, from how the first call ended
\* and how the call of the other method ended
HybridOutcome(m, primary, fallback, ctx) ==
    IF ~PrimaryFailed(primary) THEN WithMethod(m, primary.value)
    ELSE IF fallback.kind = "return"
         THEN [fallback_used |-> TRUE, original_method |-> m,
               fallback_reason |-> primary.err]
              @@ WithMethod(FallbackMethod(m), fallback.value)
         ELSE [success |-> FALSE,
               response |-> <<"Both processing methods failed. Original: ",
                              primary.err, ", Fallback: ", fallback.err>>,
               method |-> "error", error |-> primary.err,
               session_context |-> ctx]

\* what the graph nodes and process_user_message_react work on
react_state ==
    <<keys, thought, action, action_input, observation, reasoning_history,
      iteration_count, max_iterations, should_continue, final_response,
      session_context, result_text, exc, now, counters, calls, prompts,
      checkpoints>>

\* the auto-selection, then the call of the method selected
HybridStart ==
    /\ hybrid_pc = "start"
    /\ LET sel == AutoSelect(hybrid_args)
       IN  IF sel.raises # "none"
           THEN /\ hybrid_pc' = "raised"
                /\ hybrid_exc' = sel.raises
                /\ UNCHANGED <<hybrid_method, pc>>
           ELSE /\ hybrid_method' = sel.method
                /\ hybrid_exc' = hybrid_exc
                /\ IF sel.method = "react"
                   THEN /\ pc' = "initialize"
                        /\ hybrid_pc' = "react"
                   ELSE /\ pc' = pc
                        /\ hybrid_pc' = "intent"
    /\ UNCHANGED <<react_state, incoming_context, response, session_id, runs,
                   runner, hybrid_args, hybrid_primary, hybrid_result>>

\* the call in the outer try has ended with the outcome primary; the other
\* method is called when the handler takes it as failed
HybridFinish(primary) ==
    /\ hybrid_primary' = primary
    /\ IF PrimaryFailed(primary)
       THEN \E fallback \in FallbackOutcomes(hybrid_method, incoming_context) :
               hybrid_result' = HybridOutcome(hybrid_method, primary, fallback,
                                              incoming_context)
       ELSE hybrid_result' = HybridOutcome(hybrid_method, primary, NoOutcome,
                                           incoming_context)
    /\ hybrid_pc' = "returned"
    /\ UNCHANGED <<pc, react_state, incoming_context, response, session_id,
                   runs, runner, hybrid_args, hybrid_method, hybrid_exc>>

\* process_user_message_react has returned to the hybrid flow
HybridReactReturns ==
    /\ hybrid_pc = "react"
    /\ pc = "returned"
    /\ HybridFinish(FlowReturn(response))

\* the intent-based flow has returned to the hybrid flow
HybridIntentReturns ==
    /\ hybrid_pc = "intent"
    /\ \E g \in IntentGraphOutcomes :
          HybridFinish(process_intent_based(g, incoming_context))

process_user_message_hybrid ==
    \/ HybridStart
    \/ HybridReactReturns
    \/ HybridIntentReturns

\* the model outputs the runs under the hybrid flow are explored with
HybridTexts ==
    { <<ThoughtMark, WORD, ActionMark, "get_inventory_status",
        ActionInputMark, OBJECT>>,
      <<ThoughtMark, WORD, ActionMark, FINAL_ANSWER, ActionInputMark, NA>> }

hybrid_reasoning_step ==
    \/ CallModel
    \/ \E t \in HybridTexts : ReasoningStep(Text(t))

\* process_user_message_hybrid has been called
HybridInit ==
    /\ pc = "idle"
    /\ hybrid_pc = "start"
    /\ hybrid_args \in HybridInputs
    /\ Constructed

HybridNext ==
    \/ process_user_message_hybrid
    \/ initialize_react_state
    \/ hybrid_reasoning_step
    \/ react_action_step
    \/ generate_final_response
    \/ update_react_session_context
    \/ process_user_message_react

HybridSpec == HybridInit /\ [][HybridNext]_vars

-----------------------------------------------------------------------------
(* Properties *)

Last(s) == s[Len(s)]

\* x occurs in the text s
Occurs(x, s) ==
    \E i \in 1..(Len(s) - Len(x) + 1) : SubSeq(s, i, i + Len(x) - 1) = x

\* the executor has just run: the conditional edge has chosen the next node
AfterExecutor == executor_calls > 0 /\ pc \in {"reasoning", "final_response"}

\* C1: a run performs at most max_iterations Executor steps, and so at most
\* max_iterations tool executions, before it reaches finalization; after
\* max_iterations consecutive tool executions the run stops, with
\* should_continue False.
C1_AtMostMaxIterationsSteps ==
    "max_iterations" \in keys =>
        /\ executor_calls <= max_iterations
        /\ Len(tool_calls) <= max_iterations
        /\ (AfterExecutor /\ Len(tool_calls) = max_iterations) =>
              (~should_continue /\ pc = "final_response")

\* C2: every run eventually reaches DONE, with final_response set and the
\* session context updated.
C2_RunReachesDone ==
    <>(/\ pc \in {"END", "returned"}
       /\ exc = "none"
       /\ "final_response" \in keys
       /\ "last_react_reasoning" \in DOMAIN session_context)

\* C3: once the Executor has been called, len(reasoning_history) equals
\* iteration_count in every state.
C3_HistoryLengthIsIterationCount ==
    executor_calls > 0 => Len(reasoning_history) = iteration_count

C3_Witness ==
    /\ executor_calls >= 3
    /\ iteration_count = 2
    /\ \E i \in 1..Len(reasoning_history) :
          StartsWithError(reasoning_history[i].observation)

\* C4: after each Executor call should_continue equals (action is not
\* "Final Answer" and iteration_count, as counted after the call, is below
\* max_iterations), and should_continue alone chooses between REASONING and
\* FINALIZING.
C4_ContinuationRule ==
    AfterExecutor =>
        /\ should_continue =
              (action # FinalAnswer /\ iteration_count < max_iterations)
        /\ (pc = "reasoning") = should_continue

\* C5: an Executor step on the sentinel "Final Answer" looks nothing up and
\* invokes no tool; it only sets the observation to "Ready to provide final
\* answer" and should_continue to False.
C5_FinalAnswerInvokesNothing ==
    [][(pc = "action" /\ action = FinalAnswer) =>
          /\ registry_lookups' = registry_lookups
          /\ tool_calls' = tool_calls
          /\ observation' = <<"Ready to provide final answer">>
          /\ should_continue' = FALSE
          /\ UNCHANGED <<thought, action, action_input, reasoning_history,
                         iteration_count, max_iterations, final_response,
                         session_context>>]_vars

C5_Witness ==
    /\ pc = "final_response"
    /\ action = FinalAnswer
    /\ observation = <<"Ready to provide final answer">>
    /\ Len(tool_calls) = 2
    /\ executor_calls = 3

\* C6: every Executor call, the "Final Answer" sentinel included, appends
\* exactly one step to reasoning_history and adds exactly one to
\* iteration_count.
C6_EveryExecutorCallRecordsAStep ==
    [][executor_calls' = executor_calls + 1 =>
          /\ Len(reasoning_history') = Len(reasoning_history) + 1
          /\ SubSeq(reasoning_history', 1, Len(reasoning_history))
                = reasoning_history
          /\ iteration_count' = iteration_count + 1]_vars

\* C7: when a registered tool raises, the exception is caught: the step is
\* recorded with the non-empty observation "Error executing <action>:
\* <error>", iteration_count grows by one, should_continue stays as the
\* reasoning step set it, and the run goes on to the next reasoning step or
\* to finalization.
C7_ToolFailureIsIsolated ==
    [][(Len(tool_calls') = Len(tool_calls) + 1
        /\ Last(tool_calls').outcome = "raise") =>
          /\ \E e \in ToolErrors(action[1]) :
                observation' = <<"Error executing ", action[1], ": ", e>>
          /\ observation' # <<>>
          /\ Len(reasoning_history') = Len(reasoning_history) + 1
          /\ Last(reasoning_history').observation = observation'
          /\ Last(reasoning_history').action = action
          /\ iteration_count' = iteration_count + 1
          /\ should_continue' = should_continue
          /\ pc' = (IF should_continue THEN "reasoning" ELSE "final_response")
          /\ exc' = "none"]_vars

C7_Witness ==
    /\ tool_calls # <<>>
    /\ Last(tool_calls).outcome = "raise"
    /\ pc = "reasoning"
    /\ StartsWithError(observation)
    /\ iteration_count = 2

\* C8: an action that is neither "Final Answer" nor a registered tool invokes
\* no tool; its step is recorded with an observation that names the action and
\* lists every registered tool, iteration_count grows by one, and the run
\* goes back to reasoning as long as iterations remain.
C8_UnknownActionIsReported ==
    [][(pc = "action" /\ action # FinalAnswer
        /\ ~(Len(action) = 1 /\ action[1] \in ToolNames)) =>
          /\ tool_calls' = tool_calls
          /\ Occurs(action, observation')
          /\ \A i \in 1..Len(AVAILABLE_TOOLS) :
                Occurs(<<AVAILABLE_TOOLS[i]>>, observation')
          /\ Len(reasoning_history') = Len(reasoning_history) + 1
          /\ Last(reasoning_history').observation = observation'
          /\ Last(reasoning_history').action = action
          /\ iteration_count' = iteration_count + 1
          /\ (iteration_count' < max_iterations => pc' = "reasoning")
          /\ exc' = "none"]_vars

C8_Witness ==
    /\ pc = "reasoning"
    /\ action = <<"generate_sales_report">>
    /\ iteration_count = 2
    /\ Last(reasoning_history).action = <<"generate_sales_report">>
    /\ tool_calls = <<>>

\* the last reasoning model call raised
ModelCallRaised == model_calls # <<>> /\ Last(model_calls) = "raise"

\* C9: when the model call of a reasoning step raises, the step sets action
\* to "Final Answer", a thought holding the error text, an empty action_input
\* and should_continue False; the run then finalizes with no further tool
\* call and iteration_count unchanged (0 on the first iteration), and still
\* returns a text.
C9_ModelFailureFinalizes ==
    /\ [][(Len(model_calls') = Len(model_calls) + 1
           /\ Last(model_calls') = "raise") =>
             /\ action' = FinalAnswer
             /\ \E e \in ModelErrors : thought' = <<"Error in reasoning: ", e>>
             /\ action_input' = EmptyMap
             /\ should_continue' = FALSE
             /\ pc' = "action"
             /\ UNCHANGED <<iteration_count, tool_calls, reasoning_history>>]_vars
    /\ [][ModelCallRaised =>
             /\ UNCHANGED <<iteration_count, tool_calls, model_calls>>
             /\ pc' \in {"final_response", "update_context", "END", "raised",
                         "returned"}]_vars
    /\ [](ModelCallRaised =>
             /\ iteration_count = Len(model_calls) - 1
             /\ (pc = "returned" =>
                    /\ response.response # <<>>
                    /\ (exc = "none" => response.success)))

C9_Witness ==
    /\ ModelCallRaised
    /\ Len(model_calls) = 1
    /\ iteration_count = 0
    /\ pc = "returned"
    /\ response.success
    /\ response.response # <<>>
    /\ tool_calls = <<>>

\* the texts the flow can produce
TextLexemes ==
    Lexemes \cup {NONE, "No clear thought provided", "Error in reasoning: ",
                  "RecursionError", "JSONDecodeError", "get_inventory_status",
                  "generate_sales_report"}
    \cup ModelErrors

IsText(s) == s \in Seq(TextLexemes)

IsMapping(m) == m \in {EmptyMap, ObjectMap}

\* C10: parsing is total: whatever the model output, the reasoning step ends
\* with a thought that is a text, an action that is a text and an
\* action_input that is a mapping, and no exception leaves the step.
C10_ParsingIsTotal ==
    /\ pc # "raised"
    /\ exc = "none"
    /\ model_calls # <<>> =>
          /\ pc = "action"
          /\ IsText(thought)
          /\ IsText(action)
          /\ IsMapping(action_input)
          /\ should_continue \in BOOLEAN

C10_Witness ==
    /\ pc = "action"
    /\ result_text = <<ActionInputMark, DEEP>>
    /\ action = FinalAnswer
    /\ thought = <<"Error in reasoning: ", "RecursionError">>

\* the last reasoning model call returned a text
ModelReturnedText == model_calls # <<>> /\ Last(model_calls) = "text"

\* the marker occurs in the text
HasMarker(text, mark) == \E i \in 1..Len(text) : text[i] = mark

\* the text has no Action Input, or one that reads n/a, none or nothing
NoActionInput(text) ==
    \/ ~HasMarker(text, ActionInputMark)
    \/ Lower(Strip(SearchActionInput(text).group))
          \in {<<"n/a">>, <<"none">>, <<>>}

\* C11: a response without an "Action:" marker gives the action "Final
\* Answer"; a response without a "Thought:" marker gives the thought "No
\* clear thought provided"; an Action Input that is absent, or reads n/a,
\* none or nothing in any case, gives the empty mapping and keeps the parsed
\* action.
C11_ParserDefaults ==
    (pc = "action" /\ ModelReturnedText) =>
        /\ ~HasMarker(result_text, ActionMark) => action = FinalAnswer
        /\ ~HasMarker(result_text, ThoughtMark) =>
              thought = <<"No clear thought provided">>
        /\ NoActionInput(result_text) =>
              /\ action_input = EmptyMap
              /\ HasMarker(result_text, ActionMark) =>
                    action = Strip(SearchSection(result_text, ActionMark,
                                                 ActionInputMark).group)

\* C12: the finalizer never raises, whatever the reasoning history: it always
\* sets final_response to a text, and when its model call fails the text is
\* the fixed apology that embeds the error.
C12_FinalizerNeverRaises ==
    [][(pc = "final_response" /\ pc' # "final_response") =>
          /\ pc' = "update_context"
          /\ exc' = "none"
          /\ "final_response" \in keys'
          /\ final_response' \in Seq(STRING)
          /\ Last(final_calls') = "raise" =>
                \E e \in ModelErrors : final_response' = Apology(e)]_vars

\* C13: when an exception leaves the graph, process_user_message_react
\* returns a value instead of raising: success false, an apology that embeds
\* the error, method "react", an empty reasoning_trace, iterations 0 and the
\* session_context the caller passed in, unchanged.
C13_TotalFailureReturnsObject ==
    /\ [][pc = "raised" => (pc' = "returned" /\ exc' = exc)]_vars
    /\ [](pc = "returned" /\ exc # "none" =>
             /\ response.success = FALSE
             /\ Occurs(<<"I apologize, but I encountered an error during reasoning: ",
                         exc>>, response.response)
             /\ response.error = exc
             /\ response.method = "react"
             /\ response.reasoning_trace = <<>>
             /\ response.iterations = 0
             /\ response.session_context = incoming_context)

C13_Witness ==
    /\ pc = "returned"
    /\ exc = "AttributeError"
    /\ reasoning_history # <<>>
    /\ incoming_context # EmptyMap
    /\ response.session_context = incoming_context
    /\ response.reasoning_trace = <<>>

\* the actions of the steps of a history, in order
ActionsOf(history) == [i \in 1..Len(history) |-> history[i].action]

\* C16: the context updater leaves reasoning_history, iteration_count,
\* should_continue and final_response as they are; in the context it returns,
\* tools_used is the actions of reasoning_history in order without "Final
\* Answer", and iterations is iteration_count.
C16_ContextUpdaterIsPure ==
    [][pc = "update_context" =>
          /\ UNCHANGED <<reasoning_history, iteration_count, should_continue,
                         final_response>>
          /\ session_context'.last_react_reasoning.tools_used =
                SelectSeq(ActionsOf(reasoning_history),
                          LAMBDA a : a # FinalAnswer)
          /\ session_context'.last_react_reasoning.iterations =
                iteration_count]_vars

C16_Witness ==
    /\ pc = "END"
    /\ Len(reasoning_history) = 3
    /\ reasoning_history[1].action = reasoning_history[3].action
    /\ reasoning_history[1].action # reasoning_history[2].action
    /\ session_context.last_react_reasoning.tools_used =
          ActionsOf(reasoning_history)
    /\ session_context.last_react_reasoning.iterations = 3

\* the last reasoning model call returned a text without an "Action:" marker
NoActionMarker == ModelReturnedText /\ ~HasMarker(result_text, ActionMark)

\* the exceptions of parsing an Action Input
ParseErrors == {"JSONDecodeError", "RecursionError"}

\* C19: a model response without an "Action:" marker makes its iteration
\* invoke no tool and sends the run to finalization with no further
\* reasoning model call; the parse failure is not retried and does not show
\* as an error in the response returned to the user.
C19_MalformedOutputStops ==
    /\ [][(Len(model_calls') = Len(model_calls) + 1
           /\ Last(model_calls') = "text"
           /\ ~HasMarker(result_text', ActionMark)) =>
             /\ action' = FinalAnswer
             /\ should_continue' = FALSE
             /\ pc' = "action"]_vars
    /\ [][NoActionMarker =>
             /\ UNCHANGED <<model_calls, tool_calls, registry_lookups,
                            reasoning_history, iteration_count>>
             /\ pc = "action" => pc' = "final_response"
             /\ pc' # "reasoning"]_vars
    /\ [](NoActionMarker /\ pc = "returned" =>
             /\ exc \notin ParseErrors
             /\ \A e \in ParseErrors \cup {"Error in reasoning: "} :
                   ~Occurs(<<e>>, response.response))

C19_Witness ==
    /\ NoActionMarker
    /\ result_text = <<ActionInputMark, DEEP>>
    /\ pc = "returned"
    /\ response.success
    /\ Len(model_calls) = 2
    /\ Len(tool_calls) = 1
    /\ final_calls = <<"text">>

\* the Action Input of the text is there, is not n/a, none or nothing, and
\* is not the JSON of an object
ActionInputFailsToParse(text) ==
    LET t == Strip(SearchActionInput(text).group)
        jm == SearchBraces(t)
    IN  /\ HasMarker(text, ActionInputMark)
        /\ ~NoActionInput(text)
        /\ (~jm.matched \/ JsonLoadsObject(jm.group).raises # "none")

\* C20: when the Action Input of a response fails to parse as JSON, for any
\* reason, only action_input changes, to the empty mapping: the parsed
\* thought and action are kept, nothing is raised and the action does not
\* become another one, and the tool named is still executed, with the empty
\* mapping.
C20_InputParseFailureIsLocal ==
    /\ [][(Len(model_calls') = Len(model_calls) + 1
           /\ Last(model_calls') = "text"
           /\ ActionInputFailsToParse(result_text')) =>
             /\ action_input' = EmptyMap
             /\ thought' =
                   IF HasMarker(result_text', ThoughtMark)
                   THEN Strip(SearchSection(result_text', ThoughtMark,
                                            ActionMark).group)
                   ELSE <<"No clear thought provided">>
             /\ action' =
                   IF HasMarker(result_text', ActionMark)
                   THEN Strip(SearchSection(result_text', ActionMark,
                                            ActionInputMark).group)
                   ELSE FinalAnswer
             /\ pc' = "action"
             /\ exc' = "none"]_vars
    /\ [][(pc = "action" /\ pc' # "action" /\ ModelReturnedText
           /\ ActionInputFailsToParse(result_text)
           /\ HasMarker(result_text, ActionMark)
           /\ Strip(SearchSection(result_text, ActionMark,
                                  ActionInputMark).group)
                 = <<"check_stock_alerts">>) =>
             /\ Len(tool_calls') = Len(tool_calls) + 1
             /\ Last(tool_calls').tool = "check_stock_alerts"
             /\ Last(tool_calls').args = EmptyMap]_vars

\* the action the text of the last model call names
ParsedAction(text) ==
    IF HasMarker(text, ActionMark)
    THEN Strip(SearchSection(text, ActionMark, ActionInputMark).group)
    ELSE FinalAnswer

\* C14: a run has at most one external call in flight at any time, and its
\* calls follow one another: a tool call starts only after the model call of
\* its iteration has completed and been parsed, and a model call starts only
\* after the tool call before it has completed and its step has been
\* appended to the history.
C14_OneCallAtATime ==
    /\ [](Len(in_flight) <= 1)
    /\ [][Len(in_flight') > Len(in_flight) =>
             /\ in_flight = <<>>
             /\ Last(in_flight') = "tool" =>
                   /\ Len(model_calls) = Len(reasoning_history) + 1
                   /\ ModelReturnedText
                   /\ action = ParsedAction(result_text)
             /\ Last(in_flight') = "model" =>
                   /\ Len(model_calls) = Len(reasoning_history)
                   /\ tool_calls # <<>> =>
                         Last(reasoning_history).action
                            = <<Last(tool_calls).tool>>
                         \/ ~Registered(Last(reasoning_history).action)]_vars

C14_Witness ==
    /\ in_flight = <<"model">>
    /\ awaiting = "model"
    /\ Len(model_calls) = 2
    /\ Len(tool_calls) = 2
    /\ Len(reasoning_history) = 2

\* the step is a step of the run under way
RunStep == pc' # pc \/ awaiting' # awaiting

C18_RunStartsFromInit ==
    /\ [][(pc = "initialize" /\ pc' # "initialize") =>
             /\ reasoning_history' = <<>>
             /\ iteration_count' = 0
             /\ max_iterations' = 5
             /\ should_continue' = TRUE]_vars
    /\ [](pc = "reasoning" /\ model_calls = <<>> =>
             /\ reasoning_history = <<>>
             /\ iteration_count = 0)
    /\ [](pc = "returned" /\ response.success =>
             /\ Len(response.reasoning_trace) <= executor_calls
             /\ response.iterations = Len(response.reasoning_trace)
             /\ \A i \in 1..Len(response.reasoning_trace) :
                   response.reasoning_trace[i].iteration = i)

C18_Witness ==
    /\ runs = 2
    /\ session_id = "default"
    /\ pc = "reasoning"
    /\ model_calls = <<>>
    /\ reasoning_history = <<>>
    /\ iteration_count = 0
    /\ "final_response" \in keys
    /\ final_response # <<>>
    /\ now >= 4

\* the text is not JSON, or is JSON of the wrong shape: not an object, or an
\* object whose context is not an object
Malformed(inp) ==
    \/ inp.json # "object"
    \/ inp.context \in {"null", "string", "array"}

IsErrorEnvelope(v) ==
    /\ DOMAIN v = {"success", "response", "error", "intent"}
    /\ v.success = FALSE
    /\ v.intent = "error"
    /\ v.response # <<>>
    /\ v.error # <<>>

\* C17: on a malformed input - a text that is not JSON, or JSON that is not
\* an object or whose context is not an object - main prints the error
\* envelope {success false, response, error, intent "error"} and exits with
\* a status other than 0; no exception leaves main without the envelope.
C17_MalformedInputGetsEnvelope ==
    /\ raw_input # NoInput /\ Malformed(raw_input) =>
          /\ runner_pc = "exited"
          /\ exit_code > 0
          /\ Len(stdout) = 1
          /\ IsErrorEnvelope(stdout[1])
    /\ runner_pc = "exited" /\ exit_code # 0 =>
          /\ Len(stdout) = 1
          /\ IsErrorEnvelope(stdout[1])

C17_Witness ==
    /\ runner_pc = "exited"
    /\ raw_input.json = "object"
    /\ raw_input.context = "string"
    /\ exit_code = 1
    /\ stdout = <<Envelope("AttributeError")>>

\* the edges of the graph, and the return of the entry point after END
GraphEdges ==
    {<<"initialize", "reasoning">>, <<"reasoning", "action">>,
     <<"action", "reasoning">>, <<"action", "final_response">>,
     <<"final_response", "update_context">>, <<"update_context", "END">>,
     <<"END", "returned">>}

\* the finalizer has started
FinalizationStarted ==
    pc \in {"final_response", "update_context", "END", "raised", "returned"}

\* C21: a run goes initialize, reasoning, action, then reasoning again or the
\* finalizer, then the context updater, then the end: every reasoning step
\* is followed by one executor step, the finalizer runs once, the context
\* updater runs once and after the finalizer, and once finalization has
\* started there is no reasoning step and no tool call.
C21_RunFollowsTheGraph ==
    /\ [][pc' # pc => <<pc, pc'>> \in GraphEdges]_vars
    /\ [][FinalizationStarted =>
             /\ UNCHANGED <<model_calls, tool_calls>>
             /\ pc' \notin {"initialize", "reasoning", "action"}]_vars
    /\ [](pc = "returned" =>
             /\ Len(final_calls) = 1
             /\ "final_response" \in keys
             /\ "last_react_reasoning" \in DOMAIN session_context)

\* C22: reasoning_history only grows at its end: across every transition the
\* history before is a prefix of the history after, so no recorded step is
\* changed, moved or removed, and the k-th recorded step has iteration k.
C22_HistoryIsAppendOnly ==
    /\ [][/\ Len(reasoning_history') >= Len(reasoning_history)
          /\ SubSeq(reasoning_history', 1, Len(reasoning_history))
                = reasoning_history]_vars
    /\ [](\A k \in 1..Len(reasoning_history) :
             reasoning_history[k].iteration = k)

C22_Witness ==
    /\ Len(reasoning_history) = 4
    /\ reasoning_history[4].iteration = 4
    /\ reasoning_history[1].action # reasoning_history[2].action
    /\ StartsWithError(reasoning_history[3].observation)
    /\ pc = "END"

\* C23: the prompt of a reasoning step shows exactly the last
\* min(3, len(reasoning_history)) steps, in history order, each with its
\* thought, action and observation, and building the prompt leaves
\* reasoning_history as it was.
C23_PromptShowsLastThreeSteps ==
    /\ [](awaiting = "model" =>
            LET n == Len(reasoning_history)
                w == IF n < 3 THEN n ELSE 3
                shown == reasoning_prompt.steps
            IN  /\ reasoning_prompt.built
                /\ Len(shown) = w
                /\ \A i \in 1..w :
                      /\ shown[i].thought = reasoning_history[n - w + i].thought
                      /\ shown[i].action = reasoning_history[n - w + i].action
                      /\ shown[i].observation
                            = reasoning_history[n - w + i].observation)
    /\ [][reasoning_prompt' # reasoning_prompt =>
             reasoning_history' = reasoning_history]_vars

C23_Witness ==
    /\ awaiting = "model"
    /\ Len(reasoning_history) = 5
    /\ Len(reasoning_prompt.steps) = 3
    /\ reasoning_prompt.steps[1].action = reasoning_history[3].action
    /\ reasoning_history[2].action # reasoning_history[3].action
    /\ reasoning_history[4].action # reasoning_history[5].action

\* C24: the prompt of the final_response node is built from every step of
\* reasoning_history: it holds one insight block per recorded step, in
\* history order, the steps older than the last three included.
C24_FinalPromptCoversWholeHistory ==
    awaiting = "final_model" =>
        /\ response_prompt.built
        /\ Len(response_prompt.blocks) = Len(reasoning_history)
        /\ \A i \in 1..Len(reasoning_history) :
              /\ response_prompt.blocks[i].tool = reasoning_history[i].action
              /\ response_prompt.blocks[i].text
                    = reasoning_history[i].observation

C24_Witness ==
    /\ awaiting = "final_model"
    /\ Len(reasoning_history) = 5
    /\ Len(response_prompt.blocks) = 5
    /\ Len(reasoning_prompt.steps) = 3
    /\ response_prompt.blocks[1].tool # response_prompt.blocks[3].tool
    /\ response_prompt.blocks[1].kind = "domain"

\* the observation is the message of an unknown action
IsUnknownActionMessage(obs) == obs # <<>> /\ Head(obs) = "Unknown action: "

\* C25: in the prompt of the final_response node every step whose
\* observation is an unknown-action message or a tool-error message is
\* rendered as the generic warning block, and only the observations of
\* registered tools are handed to a domain-specific formatter.
C25_UnknownAndErrorGetWarningBlock ==
    awaiting = "final_model" =>
        \A i \in 1..Len(response_prompt.blocks) :
            LET obs == reasoning_history[i].observation
                block == response_prompt.blocks[i]
            IN  /\ (IsUnknownActionMessage(obs) \/ StartsWithError(obs))
                       => block.kind = "warning"
                /\ block.kind = "domain"
                       => Registered(reasoning_history[i].action)

\* the tool names the reasoning prompt advertises
Advertised(prompt) == {prompt.tools[i] : i \in 1..Len(prompt.tools)}

\* C26: every tool name the reasoning prompt advertises is a key of
\* AVAILABLE_TOOLS, and a step whose action is an advertised name has
\* invoked a tool: its observation is never the unknown-action message.
C26_AdvertisedToolsAreRegistered ==
    reasoning_prompt.built =>
        /\ Advertised(reasoning_prompt) \subseteq ToolNames
        /\ \A i \in 1..Len(reasoning_history) :
              LET step == reasoning_history[i]
              IN  (Len(step.action) = 1
                   /\ step.action[1] \in Advertised(reasoning_prompt))
                      => /\ Registered(step.action)
                         /\ ~IsUnknownActionMessage(step.observation)

\* C27: in every state of a run the reasoning model calls made, the tool
\* invocations made, iteration_count and the length of reasoning_history
\* are each at most max_iterations + 1, which is 6.
C27_WorkIsBounded ==
    "max_iterations" \in keys =>
        /\ max_iterations + 1 = 6
        /\ Len(model_calls) + (IF awaiting = "model" THEN 1 ELSE 0)
              <= max_iterations + 1
        /\ Len(tool_calls) + (IF awaiting = "tool" THEN 1 ELSE 0)
              <= max_iterations + 1
        /\ iteration_count <= max_iterations + 1
        /\ Len(reasoning_history) <= max_iterations + 1

C27_Witness ==
    /\ Len(model_calls) = 6
    /\ Len(tool_calls) = 6
    /\ iteration_count = 6
    /\ Len(reasoning_history) = 6
    /\ max_iterations = 5

\* C28: reasoning_history never holds a step whose action is "Final
\* Answer"; so in the output of every successful run iterations, the length
\* of reasoning_trace and the length of tools_used are equal, and tools_used
\* lists the action of every recorded step in order, unknown actions and
\* tools that raised included.
C28_SentinelIsNeverRecorded ==
    /\ \A i \in 1..Len(reasoning_history) :
          reasoning_history[i].action # FinalAnswer
    /\ (pc = "returned" /\ response.success) =>
          /\ response.iterations = Len(response.reasoning_trace)
          /\ Len(response.tools_used) = Len(response.reasoning_trace)
          /\ \A i \in 1..Len(response.reasoning_trace) :
                response.tools_used[i] = response.reasoning_trace[i].action

C28_Witness ==
    /\ pc = "returned"
    /\ response.success
    /\ action = FinalAnswer
    /\ Len(response.tools_used) = 3
    /\ \E i \in 1..3 :
          IsUnknownActionMessage(response.reasoning_trace[i].observation)
    /\ \E i \in 1..3 :
          StartsWithError(response.reasoning_trace[i].observation)

\* the step's observation is no error, is JSON and mentions product_name
MentionsProduct(step) ==
    /\ step.observation # <<>>
    /\ ~StartsWithError(step.observation)
    /\ JsonLoads(step.observation).raises = "none"
    /\ MentionsProductName(JsonLoads(step.observation).value)

\* C29: the session_context a successful run returns is built from that run
\* only: it holds last_react_reasoning, and last_analyzed_product pointing
\* at the last step whose non-error JSON observation mentions product_name
\* when there is one, and no entry of the caller's session_context; a run
\* that failed returns the caller's session_context unchanged.
C29_ReturnedContextIsOfThisRun ==
    pc = "returned" =>
        LET sc == response.session_context
            trace == response.reasoning_trace
        IN  IF response.success
            THEN /\ "last_react_reasoning" \in DOMAIN sc
                 /\ DOMAIN sc \subseteq
                       {"last_react_reasoning", "last_analyzed_product"}
                 /\ DOMAIN sc \cap DOMAIN incoming_context = {}
                 /\ sc.last_react_reasoning.reasoning_steps = Len(trace)
                 /\ sc.last_react_reasoning.tools_used = response.tools_used
                 /\ "last_analyzed_product" \in DOMAIN sc
                       <=> \E i \in 1..Len(trace) : MentionsProduct(trace[i])
                 /\ "last_analyzed_product" \in DOMAIN sc =>
                       LET k == sc.last_analyzed_product.reasoning_step
                       IN  /\ k \in 1..Len(trace)
                           /\ MentionsProduct(trace[k])
                           /\ \A j \in (k + 1)..Len(trace) :
                                 ~MentionsProduct(trace[j])
            ELSE sc = incoming_context

C29_Witness ==
    /\ pc = "returned"
    /\ response.success
    /\ incoming_context # EmptyMap
    /\ "last_analyzed_product" \in DOMAIN response.session_context
    /\ response.session_context.last_analyzed_product.reasoning_step = 2
    /\ MentionsProduct(response.reasoning_trace[1])
    /\ Len(response.reasoning_trace) = 3

\* a failed run hands back the caller's session_context
C29_WitnessFailure ==
    /\ pc = "returned"
    /\ ~response.success
    /\ incoming_context # EmptyMap
    /\ response.session_context = incoming_context

\* C30: in the hybrid flow the other method runs only when the first one
\* raised: a first result with success = false is returned as it is; a
\* result of the fallback carries fallback_used = true, original_method and
\* fallback_reason; when both raise the result has success = false and
\* method "error"; and process_user_message_hybrid never raises.
C30_HybridFallsBackOnlyOnException ==
    /\ hybrid_pc # "raised"
    /\ hybrid_pc = "returned" =>
          /\ hybrid_primary.kind = "return" =>
                /\ "fallback_used" \notin DOMAIN hybrid_result
                /\ hybrid_result.success = hybrid_primary.value.success
                /\ hybrid_result.response = hybrid_primary.value.response
                /\ hybrid_result.method # "error"
          /\ "fallback_used" \in DOMAIN hybrid_result =>
                /\ hybrid_primary.kind = "raise"
                /\ hybrid_result.fallback_used
                /\ hybrid_result.original_method = hybrid_method
                /\ hybrid_result.fallback_reason = hybrid_primary.err
          /\ hybrid_result.method = "error" =>
                /\ hybrid_primary.kind = "raise"
                /\ ~hybrid_result.success

\* what C30 says of the results, without "never raises"
C30_ResultsOnly ==
    hybrid_pc = "raised" \/ C30_HybridFallsBackOnlyOnException

\* a first result that reports a failure is returned without fallback
C30_UnsuccessfulPrimaryReturned ==
    /\ hybrid_pc = "returned"
    /\ hybrid_method = "react"
    /\ ~hybrid_result.success
    /\ hybrid_result.method = "react"

====
